---- MODULE Spec2Model ----
(***************************************************************************)
(* A model of regenerator.stream.Stream: a reentrant stream is a factory   *)
(* (generator_func) that builds a fresh single-pass iterator on every      *)
(* __iter__ call.  Stream objects live in the table `streams` (a stream is *)
(* referred to by its index, as the closures of the source refer to        *)
(* `self`), iterator objects live in `heap` (an iterator is referred to by *)
(* its index, so that two traversals sharing one iterator object is a      *)
(* thing the model can express), and `trav` holds the traversals of the    *)
(* consumers, which pull items with next().                                *)
(***************************************************************************)
EXTENDS Integers, Sequences, FiniteSets, TLC

VARIABLES streams, heap, trav, call

vars == <<streams, heap, trav, call>>

(***************************************************************************)
(* Bounds of the model.                                                    *)
(***************************************************************************)
MaxLen == 3
MaxChain == 2
MaxStreams == 3
MaxSize == 2
MaxN == 3
MaxSeed == 2
MaxItems == 7

(***************************************************************************)
(* Python values that streams carry.  The tag field `k` sorts before the   *)
(* payload `v`, so values of different types compare unequal.              *)
(***************************************************************************)
PyInt(n) == [k |-> "int", v |-> n]
None == [k |-> "none", v |-> 0]
Str(n) == [k |-> "str", v |-> n]
Tup(s) == [k |-> "tuple", v |-> s]
Exc(e) == [k |-> "exc", v |-> e]

\* bool(item), as the builtin filter(None, ...) applies it
Truthy(x) ==
  CASE x.k = "int" -> x.v # 0
    [] x.k = "none" -> FALSE
    [] x.k = "str" -> x.v # 0
    [] x.k = "tuple" -> Len(x.v) # 0
    [] OTHER -> TRUE

(***************************************************************************)
(* The outcome of one next() call.                                         *)
(***************************************************************************)
Yield(x) == [t |-> "yield", v |-> x]
Stop == [t |-> "stop", v |-> None]
Raise(e) == [t |-> "raise", v |-> Exc(e)]

\* the functions handed to map and filter
Apply(f, x) ==
  CASE f = "inc" -> IF x.k = "int" THEN Yield(PyInt(x.v + 1)) ELSE Raise("TypeError")
    [] f = "is_even" -> IF x.k = "int" THEN Yield(PyInt(IF x.v % 2 = 0 THEN 1 ELSE 0))
                        ELSE Raise("TypeError")
    [] OTHER -> Yield(x)

(***************************************************************************)
(* Stream objects: the closure a combinator hands to from_func.            *)
(*   op    the combinator that built the generator_func                    *)
(*   srcs  the streams the closure captured (self first, then *args)       *)
(*   data  the iterable captured by from_iterable                          *)
(*   func  the function captured by map / filter ("None" when unset)       *)
(*   arg   the integer parameters captured                                 *)
(***************************************************************************)
from_func(op, srcs, data, func, arg) ==
  [op |-> op, srcs |-> srcs, data |-> data, func |-> func, arg |-> arg]

from_iterable(data) == from_func("from_iterable", <<>>, data, "None", <<>>)

(***************************************************************************)
(* Iterator objects.                                                       *)
(*   kind  the Python iterator type                                        *)
(*   subs  the iterators it pulls from (indices into the heap)             *)
(*   rest  chain: the streams not yet opened                               *)
(*   data  list_iterator: the list; unbatch: the rest of the current item  *)
(*   pos   list_iterator index, enumerate counter, islice cnt              *)
(*   nxt   islice next; random state of the Random object                  *)
(*   open  unbatch: an inner iterator is open; chain: a source is active   *)
(*   done  the generator or iterator has finished                          *)
(***************************************************************************)
Obj(kind, subs, rest, data, func, arg, nxt) ==
  [kind |-> kind, subs |-> subs, rest |-> rest, data |-> data, func |-> func,
   arg |-> arg, pos |-> 0, nxt |-> nxt, open |-> FALSE, done |-> FALSE]

Alloc(h, o) == [h |-> Append(h, o), id |-> Len(h) + 1]

(***************************************************************************)
(* Stream.__iter__: call the stream's generator_func.  The result is the   *)
(* heap with the new iterator objects and the index of the iterator the    *)
(* caller receives.  Generator expressions, map, filter, zip, islice and   *)
(* enumerate take iter(self) when they are created; itertools.chain opens  *)
(* its sources only when next() reaches them.                              *)
(***************************************************************************)
RECURSIVE iter(_, _, _), IterAll(_, _, _, _)

\* iter() of each stream of `ss` in turn, left to right
IterAll(S, h, ss, ids) ==
  IF ss = <<>> THEN [h |-> h, ids |-> ids]
  ELSE LET r == iter(S, h, Head(ss))
       IN IterAll(S, r.h, Tail(ss), Append(ids, r.id))

\* a from_iterable that keeps one iterator, it = iter(data), for every call
\* of its generator_func
iter_data_once(h, data) ==
  LET have == {i \in 1..Len(h) : h[i].kind = "list_iterator" /\ h[i].data = data}
  IN IF have = {} THEN Alloc(h, Obj("list_iterator", <<>>, <<>>, data, "None", <<>>, 0))
     ELSE [h |-> h, id |-> CHOOSE i \in have : TRUE]

\* from_iterable's generator_func, lambda: iter(data): a new list iterator
iter_data(h, data) ==
  Alloc(h, Obj("list_iterator", <<>>, <<>>, data, "None", <<>>, 0))

\* random.Random(seed) inside generator_func_a / generator_func_b: a new
\* generator object per call, seeded alike.  The generator is modelled as a
\* linear congruential generator on RngModulus states; random() returns
\* state / RngModulus, a float of [0, 1).
RngModulus == 8

\* a random_split that seeds one generator, rng = random.Random(seed), for
\* every traversal of its branches
Random_once(h, seed) ==
  LET have == {i \in 1..Len(h) : h[i].kind = "Random" /\ h[i].arg = <<seed>>}
  IN IF have = {}
     THEN Alloc(h, Obj("Random", <<>>, <<>>, <<>>, "None", <<seed>>, seed % RngModulus))
     ELSE [h |-> h, id |-> CHOOSE i \in have : TRUE]

Random(h, seed) ==
  Alloc(h, Obj("Random", <<>>, <<>>, <<>>, "None", <<seed>>, seed % RngModulus))

iter(S, h, sid) ==
  LET s == S[sid] IN
  CASE s.op = "from_iterable" -> iter_data(h, s.data)
    [] s.op = "chain" ->
         Alloc(h, Obj("chain", <<>>, s.srcs, <<>>, "None", <<>>, 0))
    [] s.op = "random_split" ->
         LET g == Random(h, s.arg[2])
             r == iter(S, g.h, s.srcs[1])
         IN Alloc(r.h, Obj(s.op, <<r.id, g.id>>, <<>>, <<>>, s.func, s.arg, 0))
    [] s.op = "slice" ->
         LET r == iter(S, h, s.srcs[1])
         IN Alloc(r.h, Obj("islice", <<r.id>>, <<>>, <<>>, "None", s.arg, s.arg[1]))
    [] s.op = "zip_longest" ->
         LET r == IterAll(S, h, s.srcs, <<>>)
         IN Alloc(r.h, Obj(s.op, r.ids, [i \in 1..Len(s.srcs) |-> 0], s.data,
                           "None", <<>>, 0))
    [] OTHER ->
         LET r == IterAll(S, h, s.srcs, <<>>)
         IN Alloc(r.h, Obj(s.op, r.ids, <<>>, <<>>, s.func, s.arg, 0))

(***************************************************************************)
(* next(): one item request on the iterator `id`.  The result is the heap  *)
(* after the request and its outcome.  A generator that has returned or    *)
(* raised is finished: every later request stops.                          *)
(***************************************************************************)
Ret(h, r) == [h |-> h, r |-> r]
Finish(h, id, r) == [h |-> [h EXCEPT ![id].done = TRUE], r |-> r]

\* item[i]
getitem(x, i) ==
  LET n == IF x.k = "tuple" THEN Len(x.v) ELSE IF x.k = "str" THEN x.v ELSE 0
      j == IF i < 0 THEN i + n ELSE i
  IN CASE x.k = "tuple" -> IF j >= 0 /\ j < n THEN Yield(x.v[j + 1]) ELSE Raise("IndexError")
       [] x.k = "str" -> IF j >= 0 /\ j < n THEN Yield(Str(1)) ELSE Raise("IndexError")
       [] OTHER -> Raise("TypeError")

\* rng.random(): advance the generator, return the draw
lcg(x) == (5 * x + 3) % RngModulus
random(h, g) ==
  LET x == lcg(h[g].nxt)
  IN [h |-> [h EXCEPT ![g].nxt = x], draw |-> x]

\* the conditions of random_split's two generator expressions
accept_a(draw, frac) == draw <= frac

\* a branch b that also takes the items whose draw equals frac
accept_b_ge(draw, frac) == draw >= frac

accept_b(draw, frac) == draw > frac

\* a branch condition that adds the branch number instead of subtracting it
select_plus(j, i, n) == ((j + i) % n) = 0

\* the condition of split's generator expression
select(j, i, n) == ((j - i) % n) = 0

RECURSIVE next(_, _, _), filter_next(_, _, _), take(_, _, _, _, _),
          chain_next(_, _, _), islice_next(_, _, _), split_next(_, _, _),
          random_split_next(_, _, _), unbatch_next(_, _, _),
          zip_collect(_, _, _, _), zip_longest_collect(_, _, _, _, _)

list_iterator_next(h, id) ==
  LET o == h[id] IN
  IF o.pos < Len(o.data)
  THEN Ret([h EXCEPT ![id].pos = o.pos + 1], Yield(o.data[o.pos + 1]))
  ELSE Ret(h, Stop)

map_next(S, h, id) ==
  LET r == next(S, h, h[id].subs[1]) IN
  IF r.r.t = "yield" THEN Ret(r.h, Apply(h[id].func, r.r.v)) ELSE r

\* filter(func, self): with func None the item itself is tested for truth
filter_next(S, h, id) ==
  LET r == next(S, h, h[id].subs[1]) IN
  IF r.r.t # "yield" THEN r
  ELSE LET keep == IF h[id].func = "None" THEN Yield(r.r.v) ELSE Apply(h[id].func, r.r.v)
       IN IF keep.t = "raise" THEN Ret(r.h, keep)
          ELSE IF Truthy(keep.v) THEN r
          ELSE filter_next(S, r.h, id)

\* tuple(itertools.islice(it, n)): up to n items of `it`
take(S, h, it, n, acc) ==
  IF n = 0 THEN [h |-> h, r |-> Stop, items |-> acc]
  ELSE LET r == next(S, h, it) IN
       IF r.r.t = "yield" THEN take(S, r.h, it, n - 1, Append(acc, r.r.v))
       ELSE [h |-> r.h, r |-> r.r, items |-> acc]

\* a batch that ends at the first tuple shorter than size
batch_next_full(S, h, id) ==
  LET o == h[id]
      size == o.arg[1]
  IN IF o.done THEN Ret(h, Stop)
     ELSE IF size < 0 THEN Ret(h, Raise("ValueError"))
     ELSE LET t == take(S, h, o.subs[1], size, <<>>) IN
          IF t.r.t = "raise" THEN Ret(t.h, t.r)
          ELSE IF Len(t.items) < size \/ t.items = <<>> THEN Finish(t.h, id, Stop)
          ELSE Ret(t.h, Yield(Tup(t.items)))

\* iter(lambda: tuple(itertools.islice(it, size)), ()): call until () comes
batch_next(S, h, id) ==
  LET o == h[id]
      size == o.arg[1]
  IN IF o.done THEN Ret(h, Stop)
     ELSE IF size < 0 THEN Ret(h, Raise("ValueError"))
     ELSE LET t == take(S, h, o.subs[1], size, <<>>) IN
          IF t.r.t = "raise" THEN Ret(t.h, t.r)
          ELSE IF t.items = <<>> THEN Finish(t.h, id, Stop)
          ELSE Ret(t.h, Yield(Tup(t.items)))

chain_next(S, h, id) ==
  LET o == h[id] IN
  IF o.open
  THEN LET r == next(S, h, o.subs[1]) IN
       IF r.r.t = "stop" THEN chain_next(S, [r.h EXCEPT ![id].open = FALSE], id)
       ELSE r
  ELSE IF o.rest = <<>> THEN Ret(h, Stop)
  ELSE LET r == iter(S, h, Head(o.rest))
       IN chain_next(S, [r.h EXCEPT ![id].open = TRUE, ![id].subs = <<r.id>>,
                                   ![id].rest = Tail(o.rest)], id)

\* itertools.islice(self, start, stop, step); stop = -1 stands for None
islice_next(S, h, id) ==
  LET o == h[id]
      stop == o.arg[2]
  IN IF o.done THEN Ret(h, Stop)
     ELSE IF o.pos < o.nxt
     THEN LET r == next(S, h, o.subs[1]) IN
          IF r.r.t = "yield" THEN islice_next(S, [r.h EXCEPT ![id].pos = o.pos + 1], id)
          ELSE Finish(r.h, id, r.r)
     ELSE IF stop # -1 /\ o.pos >= stop THEN Finish(h, id, Stop)
     ELSE LET r == next(S, h, o.subs[1])
              n == o.nxt + o.arg[3]
          IN IF r.r.t # "yield" THEN Finish(r.h, id, r.r)
             ELSE Ret([r.h EXCEPT ![id].pos = o.pos + 1,
                                  ![id].nxt = IF stop # -1 /\ n > stop THEN stop ELSE n],
                      r.r)

\* (item for j, item in enumerate(self) if ((j-i) % n) == 0)
split_next(S, h, id) ==
  LET o == h[id] IN
  IF o.done THEN Ret(h, Stop)
  ELSE LET r == next(S, h, o.subs[1]) IN
       IF r.r.t # "yield" THEN Finish(r.h, id, r.r)
       ELSE LET h2 == [r.h EXCEPT ![id].pos = o.pos + 1] IN
            IF select(o.pos, o.arg[1], o.arg[2]) THEN Ret(h2, r.r)
            ELSE split_next(S, h2, id)

\* (item for item in self if rng.random() <= frac), and > frac for branch b
random_split_next(S, h, id) ==
  LET o == h[id] IN
  IF o.done THEN Ret(h, Stop)
  ELSE LET r == next(S, h, o.subs[1]) IN
       IF r.r.t # "yield" THEN Finish(r.h, id, r.r)
       ELSE LET d == random(r.h, o.subs[2]) IN
            IF (o.func = "a" /\ accept_a(d.draw, o.arg[1]))
               \/ (o.func = "b" /\ accept_b(d.draw, o.arg[1]))
            THEN Ret(d.h, r.r)
            ELSE random_split_next(S, d.h, id)

\* (subitem for item in self for subitem in item)
unbatch_next(S, h, id) ==
  LET o == h[id] IN
  IF o.done THEN Ret(h, Stop)
  ELSE IF o.open /\ o.data # <<>>
  THEN Ret([h EXCEPT ![id].data = Tail(o.data)], Yield(Head(o.data)))
  ELSE LET r == next(S, h, o.subs[1]) IN
       IF r.r.t # "yield" THEN Finish(r.h, id, r.r)
       ELSE IF r.r.v.k = "tuple"
       THEN unbatch_next(S, [r.h EXCEPT ![id].open = TRUE, ![id].data = r.r.v.v], id)
       ELSE IF r.r.v.k = "str"
       THEN unbatch_next(S, [r.h EXCEPT ![id].open = TRUE,
                                        ![id].data = [i \in 1..r.r.v.v |-> Str(1)]], id)
       ELSE Finish(r.h, id, Raise("TypeError"))

\* (item[i] for item in self): unzip's select_func(i) and column(idx)
column_next(S, h, id) ==
  LET o == h[id] IN
  IF o.done THEN Ret(h, Stop)
  ELSE LET r == next(S, h, o.subs[1]) IN
       IF r.r.t # "yield" THEN Finish(r.h, id, r.r)
       ELSE LET x == getitem(r.r.v, o.arg[1]) IN
            IF x.t = "yield" THEN Ret(r.h, x) ELSE Finish(r.h, id, x)

\* zip(self, *args): one item of every iterator, left to right
zip_collect(S, h, its, acc) ==
  IF its = <<>> THEN Ret(h, Yield(Tup(acc)))
  ELSE LET r == next(S, h, Head(its)) IN
       IF r.r.t = "yield" THEN zip_collect(S, r.h, Tail(its), Append(acc, r.r.v))
       ELSE r

zip_next(S, h, id) == zip_collect(S, h, h[id].subs, <<>>)

\* itertools.zip_longest(self, *args, fillvalue=fillvalue): an exhausted
\* iterator (rest[i] = 1) is not asked again, its place takes the fillvalue
zip_longest_collect(S, h, id, i, acc) ==
  LET o == h[id] IN
  IF i > Len(o.subs) THEN Ret(h, Yield(Tup(acc)))
  ELSE IF o.rest[i] = 1
  THEN zip_longest_collect(S, h, id, i + 1, Append(acc, o.data[1]))
  ELSE LET r == next(S, h, o.subs[i]) IN
       IF r.r.t = "yield" THEN zip_longest_collect(S, r.h, id, i + 1, Append(acc, r.r.v))
       ELSE IF r.r.t = "raise" THEN r
       ELSE LET h2 == [r.h EXCEPT ![id].rest[i] = 1] IN
            IF \A j \in 1..Len(o.subs) : h2[id].rest[j] = 1 THEN Ret(h2, Stop)
            ELSE zip_longest_collect(S, h2, id, i + 1, Append(acc, o.data[1]))

zip_longest_next(S, h, id) ==
  IF \A j \in 1..Len(h[id].subs) : h[id].rest[j] = 1 THEN Ret(h, Stop)
  ELSE zip_longest_collect(S, h, id, 1, <<>>)

next(S, h, id) ==
  LET kind == h[id].kind IN
  CASE kind = "list_iterator" -> list_iterator_next(h, id)
    [] kind = "map" -> map_next(S, h, id)
    [] kind = "filter" -> filter_next(S, h, id)
    [] kind = "batch" -> batch_next(S, h, id)
    [] kind = "chain" -> chain_next(S, h, id)
    [] kind = "islice" -> islice_next(S, h, id)
    [] kind = "split" -> split_next(S, h, id)
    [] kind = "random_split" -> random_split_next(S, h, id)
    [] kind = "unbatch" -> unbatch_next(S, h, id)
    [] kind = "column" -> column_next(S, h, id)
    [] kind = "unzip" -> column_next(S, h, id)
    [] kind = "zip" -> zip_next(S, h, id)
    [] kind = "zip_longest" -> zip_longest_next(S, h, id)
    [] OTHER -> Ret(h, Stop)

(***************************************************************************)
(* A loop over an iterator (for, tuple(), list(), sum()): next() until it  *)
(* stops or raises.  The result is the heap after the loop, the items      *)
(* received and how the loop ended ("stop" or the exception).              *)
(***************************************************************************)
RECURSIVE drain(_, _, _, _)
drain(S, h, it, acc) ==
  LET r == next(S, h, it) IN
  IF r.r.t = "yield" THEN drain(S, r.h, it, Append(acc, r.r.v))
  ELSE [h |-> r.h, out |-> acc, st |-> IF r.r.t = "stop" THEN "stop" ELSE r.r.v.v]

\* tuple(self), as fix does it: one traversal of stream `sid`, begun when
\* no other iterator exists
tuple(S, sid) ==
  LET it == iter(S, <<>>, sid) IN drain(S, it.h, it.id, <<>>)

\* the iterators a call created are released when it returns
Release(h, before) == SubSeq(h, 1, Len(before))

(***************************************************************************)
(* The outcome of a call on a stream, kept in `call`.                      *)
(***************************************************************************)
StreamRef(id) == [k |-> "stream", v |-> id]
Return(x) == [t |-> "return", v |-> x]
Called(op, sid, arg, res) == [op |-> op, sid |-> sid, arg |-> arg, res |-> res]
NoCall == Called("none", 0, <<>>, Return(None))

\* a combinator that returns self.from_func(generator_func)
Combine(op, srcs, data, func, arg) ==
  /\ \A s \in {srcs[i] : i \in 1..Len(srcs)} : s \in 1..Len(streams)
  /\ streams' = Append(streams, from_func(op, srcs, data, func, arg))
  /\ call' = Called(op, srcs[1], arg, Return(StreamRef(Len(streams) + 1)))
  /\ UNCHANGED <<heap, trav>>

\* a combinator that returns tuple(self.from_func(partial(select_func, i)) ...)
CombineN(op, s, n, arg) ==
  /\ s \in 1..Len(streams)
  /\ streams' = streams \o [i \in 1..n |-> from_func(op, <<s>>, <<>>, "None", <<i - 1>> \o arg)]
  /\ call' = Called(op, s, <<n>>, Return(Tup([i \in 1..n |-> StreamRef(Len(streams) + i)])))
  /\ UNCHANGED <<heap, trav>>

map(s, f) == Combine("map", <<s>>, <<>>, f, <<>>)

filter(s, f) == Combine("filter", <<s>>, <<>>, f, <<>>)

\* a batch that checks its size when called
batch_checked(s, size) ==
  IF size >= 1 THEN Combine("batch", <<s>>, <<>>, "None", <<size>>)
  ELSE /\ s \in 1..Len(streams)
       /\ call' = Called("batch", s, <<size>>, Raise("ValueError"))
       /\ UNCHANGED <<streams, heap, trav>>

batch(s, size) == Combine("batch", <<s>>, <<>>, "None", <<size>>)

unbatch(s) == Combine("unbatch", <<s>>, <<>>, "None", <<>>)

chain(s, t) == Combine("chain", <<s, t>>, <<>>, "None", <<>>)

slice(s, start, stop, step) == Combine("slice", <<s>>, <<>>, "None", <<start, stop, step>>)

column(s, idx) == Combine("column", <<s>>, <<>>, "None", <<idx>>)

zip(s, t) == Combine("zip", <<s, t>>, <<>>, "None", <<>>)

zip_longest(s, t, fillvalue) == Combine("zip_longest", <<s, t>>, <<fillvalue>>, "None", <<>>)

split(s, n) == CombineN("split", s, n, <<n>>)

\* frac is a number of RngModulus-ths; seed = -1 stands for None, and the
\* seed is then drawn once, at the call (random.randint(0, 1_000_000))
random_split(s, frac, seed) ==
  /\ s \in 1..Len(streams)
  /\ UNCHANGED <<heap, trav>>
  /\ IF ~(0 <= frac /\ frac <= RngModulus)
     THEN /\ call' = Called("random_split", s, <<frac, seed>>, Raise("ValueError"))
          /\ UNCHANGED streams
     ELSE /\ \E sd \in IF seed = -1 THEN 0..MaxSeed ELSE {seed} :
               /\ streams' = streams \o
                    << from_func("random_split", <<s>>, <<>>, "a", <<frac, sd>>),
                       from_func("random_split", <<s>>, <<>>, "b", <<frac, sd>>) >>
               /\ call' = Called("random_split", s, <<frac, seed>>,
                                 Return(Tup(<<StreamRef(Len(streams) + 1),
                                              StreamRef(Len(streams) + 2)>>)))

\* len(x)
len(x) ==
  CASE x.k = "tuple" -> Return(PyInt(Len(x.v)))
    [] x.k = "str" -> Return(PyInt(x.v))
    [] OTHER -> Raise("TypeError")

\* n = -1 stands for None: n is the length of the first item of a traversal
\* made for that purpose
unzip(s, n) ==
  /\ s \in 1..Len(streams)
  /\ UNCHANGED trav
  /\ IF n # -1
     THEN /\ CombineN("unzip", s, n, <<>>)
     ELSE LET it == iter(streams, heap, s)
              r == next(streams, it.h, it.id)
              m == IF r.r.t = "stop" THEN Raise("ValueError")
                   ELSE IF r.r.t = "raise" THEN r.r
                   ELSE len(r.r.v)
          IN /\ heap' = Release(r.h, heap)
             /\ IF m.t # "return"
                THEN /\ call' = Called("unzip", s, <<n>>, m)
                     /\ UNCHANGED streams
                ELSE /\ streams' = streams \o
                          [i \in 1..m.v.v |-> from_func("unzip", <<s>>, <<>>, "None", <<i - 1>>)]
                     /\ call' = Called("unzip", s, <<n>>,
                          Return(Tup([i \in 1..m.v.v |-> StreamRef(Len(streams) + i)])))

\* an enumeration that counts the first item as 1
RECURSIVE enumerate_from_one(_, _, _, _, _)
enumerate_from_one(S, h, it, i, idx) ==
  LET r == next(S, h, it) IN
  IF r.r.t = "yield"
  THEN IF i + 1 = idx THEN Ret(r.h, Return(r.r.v))
       ELSE enumerate_from_one(S, r.h, it, i + 1, idx)
  ELSE IF r.r.t = "stop" THEN Ret(r.h, Raise("IndexError"))
  ELSE r

\* for i, item in enumerate(self): if i == idx: return item
RECURSIVE enumerate_until(_, _, _, _, _)
enumerate_until(S, h, it, i, idx) ==
  LET r == next(S, h, it) IN
  IF r.r.t = "yield"
  THEN IF i = idx THEN Ret(r.h, Return(r.r.v)) ELSE enumerate_until(S, r.h, it, i + 1, idx)
  ELSE IF r.r.t = "stop" THEN Ret(r.h, Raise("IndexError"))
  ELSE r

\* the integer branch of __getitem__
__getitem__(s, idx) ==
  /\ s \in 1..Len(streams)
  /\ UNCHANGED <<streams, trav>>
  /\ IF idx < 0
     THEN /\ call' = Called("__getitem__", s, <<idx>>, Raise("IndexError"))
          /\ UNCHANGED heap
     ELSE LET it == iter(streams, heap, s)
              r == enumerate_until(streams, it.h, it.id, 0, idx)
          IN /\ heap' = Release(r.h, heap)
             /\ call' = Called("__getitem__", s, <<idx>>, r.r)

max_items == 5
Ellipsis == [k |-> "repr", v |-> [k |-> "ellipsis", v |-> 0]]
repr(x) == [k |-> "repr", v |-> x]

\* item_reprs of __repr__, the list that is joined into the text: the reprs
\* of the items of self[:max_items + 1], the last one replaced by '...'
item_reprs(xs) ==
  LET rs == [i \in 1..Len(xs) |-> repr(xs[i])]
  IN IF Len(rs) >= max_items THEN [rs EXCEPT ![Len(rs)] = Ellipsis] ELSE rs

__repr__(s) ==
  /\ s \in 1..Len(streams)
  /\ UNCHANGED <<streams, trav>>
  /\ LET S == Append(streams, from_func("slice", <<s>>, <<>>, "None", <<0, max_items + 1, 1>>))
         it == iter(S, heap, Len(S))
         r == drain(S, it.h, it.id, <<>>)
     IN /\ heap' = Release(r.h, heap)
        /\ call' = Called("__repr__", s, <<>>,
                          IF r.st = "stop" THEN Return(Tup(item_reprs(r.out)))
                          ELSE Raise(r.st))

(***************************************************************************)
(* A consumer: iter(stream) begins a traversal, each next() asks it for    *)
(* one item, and StopIteration or an exception ends it.  A consumer may    *)
(* leave a traversal where it is.                                          *)
(***************************************************************************)
Consumers == {"c1", "c2"}
Idle == [sid |-> 0, it |-> 0, out |-> <<>>, st |-> "idle"]

begin(c, s) ==
  /\ s \in 1..Len(streams)
  /\ trav[c].st = "idle"
  /\ LET r == iter(streams, heap, s)
     IN /\ heap' = r.h
        /\ trav' = [trav EXCEPT ![c] = [sid |-> s, it |-> r.id, out |-> <<>>, st |-> "run"]]
  /\ UNCHANGED <<streams, call>>

advance(c) ==
  /\ trav[c].st = "run"
  /\ LET r == next(streams, heap, trav[c].it)
     IN /\ heap' = r.h
        /\ trav' = [trav EXCEPT ![c] =
             CASE r.r.t = "yield" -> [@ EXCEPT !.out = Append(@, r.r.v)]
               [] r.r.t = "stop" -> [@ EXCEPT !.st = "stop"]
               [] OTHER -> [@ EXCEPT !.st = r.r.v.v]]
  /\ UNCHANGED <<streams, call>>

(***************************************************************************)
(* Reentrancy: a stream built by from_iterable over a collection that can  *)
(* be iterated again and again, the non-randomized combinators applied to  *)
(* the streams built so far, and consumers that begin traversals, advance  *)
(* them in any order and leave them at any point.                          *)
(***************************************************************************)
Collections ==
  { <<>>,
    <<PyInt(1), PyInt(2), PyInt(3)>>,
    <<Tup(<<PyInt(1), PyInt(2)>>), Tup(<<PyInt(3), None>>)>>,
    <<Tup(<<PyInt(0)>>), PyInt(4)>> }

InitReentrant ==
  /\ \E data \in Collections : streams = <<from_iterable(data)>>
  /\ heap = <<>>
  /\ trav = [c \in Consumers |-> Idle]
  /\ call = NoCall

NextReentrant ==
  \/ \E s \in 1..Len(streams) :
       /\ Len(streams) < MaxChain
       /\ \/ map(s, "inc")
          \/ \E f \in {"None", "is_even"} : filter(s, f)
          \/ batch(s, 2)
          \/ unbatch(s)
          \/ slice(s, 1, -1, 2)
          \/ split(s, 2)
          \/ unzip(s, 2)
          \/ column(s, 1)
          \/ \E t \in 1..Len(streams) :
               \/ chain(s, t)
               \/ zip(s, t)
               \/ zip_longest(s, t, None)
  \/ \E c \in Consumers :
       \/ \E s \in 1..Len(streams) : begin(c, s)
       \/ advance(c)

SpecReentrant == InitReentrant /\ [][NextReentrant]_vars

Finished(c) == trav[c].st \notin {"idle", "run"}
Result(c) == [out |-> trav[c].out, st |-> trav[c].st]
Fresh(sid) == LET r == tuple(streams, sid) IN [out |-> r.out, st |-> r.st]

\* C1 (reentrancy): two full traversals of one stream yield the same items
\* and end the same way, and each yields what a traversal begun before any
\* other would yield, whatever the other consumer did before or meanwhile.
Reentrancy ==
  \A c \in Consumers :
    Finished(c) =>
      /\ Result(c) = Fresh(trav[c].sid)
      /\ \A d \in Consumers :
           (Finished(d) /\ trav[d].sid = trav[c].sid) => Result(d) = Result(c)

\* two full traversals of one combinator stream that yielded items
ReentrancyWitness ==
  /\ trav["c1"].st = "stop"
  /\ trav["c2"].st = "stop"
  /\ trav["c1"].sid = trav["c2"].sid
  /\ trav["c1"].sid > 1
  /\ Len(trav["c2"].out) >= 2

(***************************************************************************)
(* Splitting: split(n) and random_split(frac, seed) of a stream over a     *)
(* collection, and two consumers that traverse the branches and the        *)
(* upstream stream in any interleaving of their requests.                  *)
(***************************************************************************)
Seqs(items, n) == UNION {[1..k -> items] : k \in 0..n}

\* the collection [1, 2, ..., n]: every item tells its position
Ramp(n) == [i \in 1..n |-> PyInt(i)]

InitSplit ==
  /\ \E n \in 0..MaxLen : streams = <<from_iterable(Ramp(n))>>
  /\ heap = <<>>
  /\ trav = [c \in Consumers |-> Idle]
  /\ call = NoCall

NextSplit ==
  \/ \E s \in 1..Len(streams) :
       /\ Len(streams) < MaxChain
       /\ \/ \E n \in 1..MaxN : split(s, n)
          \/ \E frac \in -1..RngModulus + 1, seed \in -1..MaxSeed : random_split(s, frac, seed)
  \/ \E c \in Consumers :
       \/ \E s \in 1..Len(streams) : begin(c, s)
       \/ advance(c)

SpecSplit == InitSplit /\ [][NextSplit]_vars

\* the items of `seq` at the 0-based positions of the set I, in order
RECURSIVE PickFrom(_, _, _)
PickFrom(seq, I, j) ==
  IF j >= Len(seq) THEN <<>>
  ELSE (IF j \in I THEN <<seq[j + 1]>> ELSE <<>>) \o PickFrom(seq, I, j + 1)
Pick(seq, I) == PickFrom(seq, I, 0)

Upstream(sid) == Fresh(streams[sid].srcs[1])

\* C3 (split completeness): split(n) returns n streams, the branches 0..n-1,
\* and a full traversal of branch b yields, in order, exactly the items of
\* the upstream stream at the positions j with j mod n = b.
SplitComplete ==
  /\ call.op = "split" =>
       /\ call.res.t = "return"
       /\ Len(call.res.v.v) = call.arg[1]
       /\ \A b \in 1..call.arg[1] :
            LET s == streams[call.res.v.v[b].v]
            IN s.op = "split" /\ s.srcs = <<call.sid>> /\ s.arg = <<b - 1, call.arg[1]>>
  /\ \A c \in Consumers :
       (Finished(c) /\ streams[trav[c].sid].op = "split"
          /\ Upstream(trav[c].sid).st = "stop") =>
         LET s == streams[trav[c].sid]
             up == Upstream(trav[c].sid).out
         IN Result(c) = [out |-> Pick(up, {j \in 0..Len(up) - 1 : j % s.arg[2] = s.arg[1]}),
                         st |-> "stop"]

\* a full traversal of the middle branch of split(3) that yielded an item
SplitCompleteWitness ==
  \E c \in Consumers :
    /\ trav[c].st = "stop"
    /\ streams[trav[c].sid].op = "split"
    /\ streams[trav[c].sid].arg = <<1, 3>>
    /\ Len(trav[c].out) >= 1

\* the draw for the item at position j under `seed`: a function of both only
RECURSIVE DrawAt(_, _)
DrawAt(seed, j) ==
  IF j = 0 THEN lcg(seed % RngModulus) ELSE lcg(DrawAt(seed, j - 1))

\* C4 (seeded random_split): the two branches of one call hold the same
\* seed and frac; every full traversal of branch a yields exactly the
\* upstream items at the positions j whose draw, a function of (seed, j),
\* is <= frac, and every full traversal of branch b exactly the others,
\* whatever the other consumer did to the other branch.
SeededSplit ==
  /\ (call.op = "random_split" /\ call.res.t = "return") =>
       LET a == streams[call.res.v.v[1].v]
           b == streams[call.res.v.v[2].v]
       IN /\ a.op = "random_split" /\ b.op = "random_split"
          /\ a.func = "a" /\ b.func = "b"
          /\ a.arg = b.arg /\ a.srcs = b.srcs
          /\ a.arg[1] = call.arg[1]
          /\ call.arg[2] # -1 => a.arg[2] = call.arg[2]
  /\ \A c \in Consumers :
       (Finished(c) /\ streams[trav[c].sid].op = "random_split"
          /\ Upstream(trav[c].sid).st = "stop") =>
         LET s == streams[trav[c].sid]
             up == Upstream(trav[c].sid).out
             all == 0..Len(up) - 1
             A == {j \in all : DrawAt(s.arg[2], j) <= s.arg[1]}
         IN Result(c) = [out |-> Pick(up, IF s.func = "a" THEN A ELSE all \ A),
                         st |-> "stop"]

\* both branches of one random_split traversed in full, each with an item
SeededSplitWitness ==
  /\ trav["c1"].st = "stop" /\ trav["c2"].st = "stop"
  /\ streams[trav["c1"].sid].op = "random_split"
  /\ streams[trav["c2"].sid].op = "random_split"
  /\ streams[trav["c1"].sid].func = "a"
  /\ streams[trav["c2"].sid].func = "b"
  /\ Len(trav["c1"].out) >= 1
  /\ Len(trav["c2"].out) >= 1

\* what a traversal will still yield, and how it will end, from here on
Rest(c) ==
  LET r == drain(streams, heap, trav[c].it, <<>>) IN [out |-> r.out, st |-> r.st]

\* C9 (interleaving safety): at every point of every interleaving, what a
\* traversal has yielded followed by what it will still yield is what the
\* traversal yields when it runs alone from start to end, and it ends the
\* same way: no request of the other consumer moved it.
InterleavingSafe ==
  \A c \in Consumers :
    /\ trav[c].st = "run" =>
         /\ trav[c].out \o Rest(c).out = Fresh(trav[c].sid).out
         /\ Rest(c).st = Fresh(trav[c].sid).st
    /\ Finished(c) => Result(c) = Fresh(trav[c].sid)

\* two branches of one random_split, both part-way and both with an item
InterleavingWitness ==
  /\ trav["c1"].st = "run" /\ trav["c2"].st = "run"
  /\ trav["c1"].sid # trav["c2"].sid
  /\ streams[trav["c1"].sid].op = "random_split"
  /\ streams[trav["c2"].sid].op = "random_split"
  /\ Len(trav["c1"].out) >= 1
  /\ Len(trav["c2"].out) >= 1
  /\ Len(Rest("c1").out) >= 1

(***************************************************************************)
(* Batching: batch(size) and unbatch() over a collection, with sizes that  *)
(* are positive, zero and negative.                                        *)
(***************************************************************************)
InitBatch ==
  /\ \E n \in 0..MaxLen : streams = <<from_iterable(Ramp(n))>>
  /\ heap = <<>>
  /\ trav = [c \in Consumers |-> Idle]
  /\ call = NoCall

NextBatch ==
  \/ \E s \in 1..Len(streams) :
       /\ Len(streams) < MaxStreams
       /\ \/ \E size \in -1..MaxSize : batch(s, size)
          \/ unbatch(s)
  \/ \E c \in Consumers :
       \/ \E s \in 1..Len(streams) : begin(c, s)
       \/ advance(c)

SpecBatch == InitBatch /\ [][NextBatch]_vars

RECURSIVE Flatten(_)
Flatten(ts) == IF ts = <<>> THEN <<>> ELSE Head(ts).v \o Flatten(Tail(ts))

IsBatchOf(sid, k) == streams[sid].op = "batch" /\ streams[sid].arg = <<k>>

\* C2 (batch/unbatch round trip): for a stream S that ends and k >= 1, a
\* full traversal of S.batch(k).unbatch() yields exactly S's items in S's
\* order, and a full traversal of S.batch(k) yields tuples of exactly k
\* items, except the last, which has between 1 and k, that together are S.
BatchRoundTrip ==
  \A c \in Consumers : \A k \in 1..MaxSize :
    LET sid == trav[c].sid IN
    /\ (Finished(c) /\ IsBatchOf(sid, k) /\ Upstream(sid).st = "stop") =>
         /\ trav[c].st = "stop"
         /\ \A i \in 1..Len(trav[c].out) :
              /\ trav[c].out[i].k = "tuple"
              /\ Len(trav[c].out[i].v) \in 1..k
              /\ i < Len(trav[c].out) => Len(trav[c].out[i].v) = k
         /\ Flatten(trav[c].out) = Upstream(sid).out
    /\ (Finished(c) /\ streams[sid].op = "unbatch" /\ IsBatchOf(streams[sid].srcs[1], k)
          /\ Upstream(streams[sid].srcs[1]).st = "stop") =>
         Result(c) = [out |-> Upstream(streams[sid].srcs[1]).out, st |-> "stop"]

\* a full traversal of S.batch(2).unbatch() over three items, and one of
\* S.batch(2), whose last batch is short
BatchRoundTripWitness ==
  \E c, d \in Consumers :
    /\ trav[c].st = "stop" /\ trav[d].st = "stop"
    /\ streams[trav[c].sid].op = "unbatch"
    /\ IsBatchOf(streams[trav[c].sid].srcs[1], 2)
    /\ Len(trav[c].out) = 3
    /\ IsBatchOf(trav[d].sid, 2)
    /\ Len(trav[d].out) = 2

\* C5 as claimed (eager validation): a batch call with size <= 0 raises
\* ValueError at the call, and no stream with such a size is ever returned.
EagerBatchValidation ==
  /\ (call.op = "batch" /\ call.arg[1] <= 0) => call.res = Raise("ValueError")
  /\ \A sid \in 1..Len(streams) : streams[sid].op = "batch" => streams[sid].arg[1] >= 1

\* C5 as amended (no validation at the call): a batch call returns a stream
\* for every size; a traversal of it yields nothing and ends at its first
\* request when size = 0, and fails with ValueError at its first request
\* when size < 0.
LazyBatchValidation ==
  /\ call.op = "batch" =>
       /\ call.res.t = "return"
       /\ streams[call.res.v.v].op = "batch"
       /\ streams[call.res.v.v].arg = call.arg
  /\ \A c \in Consumers :
       (trav[c].st # "idle" /\ streams[trav[c].sid].op = "batch"
          /\ streams[trav[c].sid].arg[1] <= 0) =>
         LET end == IF streams[trav[c].sid].arg[1] = 0 THEN "stop" ELSE "ValueError"
         IN /\ trav[c].out = <<>>
            /\ trav[c].st \in {"run", end}
            /\ trav[c].st = "run" => Rest(c) = [out |-> <<>>, st |-> end]

\* a traversal of a batch(0) that ended empty and one of a batch(-1) that
\* failed, both over a stream that has items
LazyBatchValidationWitness ==
  \E c, d \in Consumers :
    /\ trav[c].st = "stop" /\ IsBatchOf(trav[c].sid, 0)
    /\ trav[d].st = "ValueError" /\ IsBatchOf(trav[d].sid, -1)
    /\ Len(Upstream(trav[c].sid).out) >= 1
    /\ Len(Upstream(trav[d].sid).out) >= 1

(***************************************************************************)
(* filter() over collections that hold None and other false values.       *)
(***************************************************************************)
InitFilter ==
  /\ \E data \in Seqs({PyInt(0), PyInt(1), None, Str(0)}, MaxLen) :
       streams = <<from_iterable(data)>>
  /\ heap = <<>>
  /\ trav = [c \in Consumers |-> Idle]
  /\ call = NoCall

NextFilter ==
  \/ \E s \in 1..Len(streams) :
       /\ Len(streams) < MaxChain
       /\ \E f \in {"None", "is_even"} : filter(s, f)
  \/ \E c \in Consumers :
       \/ \E s \in 1..Len(streams) : begin(c, s)
       \/ advance(c)

SpecFilter == InitFilter /\ [][NextFilter]_vars

NotNone(x) == x # None

\* C6 as claimed (filter with no predicate): a full traversal of S.filter()
\* yields, in order, exactly the items of S that are not None; 0 and the
\* empty string are kept.
FilterDropsOnlyNone ==
  \A c \in Consumers :
    (Finished(c) /\ streams[trav[c].sid].op = "filter"
       /\ streams[trav[c].sid].func = "None" /\ Upstream(trav[c].sid).st = "stop") =>
      Result(c) = [out |-> SelectSeq(Upstream(trav[c].sid).out, NotNone), st |-> "stop"]

(***************************************************************************)
(* Positional access and the preview: S[i] and repr(S) on streams of up to *)
(* MaxItems items, with random_split for the error its bad frac raises,    *)
(* while one consumer traverses the streams.                               *)
(***************************************************************************)
InitIndex ==
  /\ \E n \in 0..MaxItems : streams = <<from_iterable(Ramp(n))>>
  /\ heap = <<>>
  /\ trav = [c \in Consumers |-> Idle]
  /\ call = NoCall

NextIndex ==
  \/ \E s \in 1..Len(streams) :
       \/ \E idx \in -2..MaxItems + 1 : __getitem__(s, idx)
       \/ __repr__(s)
       \/ /\ Len(streams) < MaxChain
          /\ \E frac \in {-1, RngModulus \div 2, RngModulus + 1} : random_split(s, frac, 0)
  \/ \E s \in 1..Len(streams) : begin("c1", s)
  \/ advance("c1")

SpecIndex == InitIndex /\ [][NextIndex]_vars

BadFrac == call.op = "random_split" /\ ~(0 <= call.arg[1] /\ call.arg[1] <= RngModulus)

\* C7 as claimed (positional access): S[i] returns the item at position i
\* when 0 <= i < L, raises IndexError when i >= L, and when i < 0 raises
\* ValueError, the error of a random_split frac out of range.
PositionalAccessClaimed ==
  /\ BadFrac => call.res = Raise("ValueError")
  /\ (call.op = "__getitem__" /\ Fresh(call.sid).st = "stop") =>
       LET up == Fresh(call.sid).out
           i == call.arg[1]
       IN /\ (0 <= i /\ i < Len(up)) => call.res = Return(up[i + 1])
          /\ i >= Len(up) => call.res = Raise("IndexError")
          /\ i < 0 => call.res = Raise("ValueError")

\* C7 as amended: as claimed, but when i < 0 S[i] raises IndexError, the
\* error it raises when i >= L, not the ValueError of a bad frac.
PositionalAccess ==
  /\ BadFrac => call.res = Raise("ValueError")
  /\ (call.op = "__getitem__" /\ Fresh(call.sid).st = "stop") =>
       LET up == Fresh(call.sid).out
           i == call.arg[1]
       IN /\ (0 <= i /\ i < Len(up)) => call.res = Return(up[i + 1])
          /\ i >= Len(up) => call.res = Raise("IndexError")
          /\ i < 0 => call.res = Raise("IndexError")

\* S[-1] on a stream that has items
PositionalAccessWitness ==
  /\ call.op = "__getitem__"
  /\ call.arg[1] = -1
  /\ call.res = Raise("IndexError")
  /\ Len(Fresh(call.sid).out) >= 2

\* C10 as claimed (preview ellipsis): the preview of a stream of L items
\* renders all L items and no ellipsis when L <= max_items, and the first
\* max_items items followed by the ellipsis when L > max_items.
PreviewEllipsis ==
  (call.op = "__repr__" /\ Fresh(call.sid).st = "stop") =>
    LET up == Fresh(call.sid).out
        shown == [i \in 1..(IF Len(up) <= max_items THEN Len(up) ELSE max_items)
                    |-> repr(up[i])]
    IN call.res = Return(Tup(IF Len(up) <= max_items THEN shown
                             ELSE Append(shown, Ellipsis)))

(***************************************************************************)
(* unzip(n) over collections of tuples of one, two and three items.        *)
(***************************************************************************)
Rows ==
  { Tup(<<PyInt(1)>>), Tup(<<PyInt(2), PyInt(3)>>), Tup(<<PyInt(4), PyInt(5), PyInt(6)>>) }

InitUnzip ==
  /\ \E data \in Seqs(Rows, MaxLen) : streams = <<from_iterable(data)>>
  /\ heap = <<>>
  /\ trav = [c \in Consumers |-> Idle]
  /\ call = NoCall

NextUnzip ==
  \/ \E s \in 1..Len(streams) :
       /\ Len(streams) < MaxChain
       /\ \E n \in -1..MaxN : unzip(s, n)
  \/ \E c \in Consumers :
       \/ \E s \in 1..Len(streams) : begin(c, s)
       \/ advance(c)

SpecUnzip == InitUnzip /\ [][NextUnzip]_vars

Min(I) == CHOOSE i \in I : \A j \in I : i <= j

\* C8 as claimed (unzip arity): unzip(n) with explicit n returns n streams;
\* a traversal of any branch i fails with IndexError at the first item
\* shorter than n, having yielded item[i] of every earlier item, and
\* otherwise yields item[i] of every item.
UnzipArity ==
  (call.op = "unzip" /\ call.arg[1] >= 0) =>
    /\ call.res.t = "return"
    /\ Len(call.res.v.v) = call.arg[1]
    /\ \A c \in Consumers :
         (Finished(c) /\ StreamRef(trav[c].sid) \in {call.res.v.v[b] : b \in 1..call.arg[1]}
            /\ Upstream(trav[c].sid).st = "stop") =>
           LET up == Upstream(trav[c].sid).out
               i == streams[trav[c].sid].arg[1]
               short == {j \in 1..Len(up) : Len(up[j].v) < call.arg[1]}
               p == IF short = {} THEN Len(up) + 1 ELSE Min(short)
           IN Result(c) = [out |-> [j \in 1..p - 1 |-> up[j].v[i + 1]],
                           st |-> IF short = {} THEN "stop" ELSE "IndexError"]

====
